---- MODULE Spec2Model ----
(***************************************************************************)
(* Chunked message transfer of the mesh client: sendChunkedMessage (the    *)
(* upload state machine) and readMessage (the download state machine).     *)
(* Strings that are formatted or parsed are sequences of one-character     *)
(* strings, so that formatting and parsing are computed, not assumed.      *)
(***************************************************************************)
EXTENDS Integers, Sequences, FiniteSets, TLC

\* ------------------------------------------------------------------ bounds
MaxPayload == 5        \* longest payload (bytes) handed to sendChunkedMessage
ChunkLimit == 2        \* CHUNK_SIZE scaled down (10 MB in the source)
MaxRequests == 3       \* most requests one readMessage call issues in the model
MaxTotal == 2          \* largest chunk index or total a server response names

\* --------------------------------------------------------------- constants
NullStatus == 0        \* result.status before any response is stored (null)

Ops == {1, 2}
Bytes == {0, 1}
Statuses == {200, 202, 206, 500}
MessageIds == {"m1", "m2"}
Undefined == "undefined"

\* ------------------------------------------------- JavaScript value helpers
\* A JavaScript number, NaN or undefined, as produced by Number() and by
\* destructuring an array that is too short.
Num(n) == [t |-> "num", v |-> n]
NaN == [t |-> "NaN", v |-> 0]
UndefinedNum == [t |-> "undefined", v |-> 0]

\* a < b of JavaScript: false as soon as one side is NaN or undefined.
LessThan(a, b) == a.t = "num" /\ b.t = "num" /\ a.v < b.v

DigitChars == <<"0", "1", "2", "3", "4", "5", "6", "7", "8", "9">>

DigitValue(c) == CHOOSE d \in 0..9 : DigitChars[d + 1] = c

IsDigit(c) == \E d \in 0..9 : DigitChars[d + 1] = c

\* `${n}` for a non-negative integer n.
RECURSIVE ToStr(_)
ToStr(n) ==
    IF n < 10 THEN <<DigitChars[n + 1]>>
    ELSE ToStr(n \div 10) \o <<DigitChars[(n % 10) + 1]>>

\* `${current}:${total}`
FormatRange(current, total) == ToStr(current) \o <<":">> \o ToStr(total)

\* s.split(":")
RECURSIVE Split(_)
Split(s) ==
    IF \E i \in 1..Len(s) : s[i] = ":"
    THEN LET i == CHOOSE j \in 1..Len(s) :
                     s[j] = ":" /\ \A k \in 1..(j - 1) : s[k] # ":"
         IN <<SubSeq(s, 1, i - 1)>> \o Split(SubSeq(s, i + 1, Len(s)))
    ELSE <<s>>

RECURSIVE DecimalValue(_)
DecimalValue(f) ==
    IF f = <<>> THEN 0
    ELSE 10 * DecimalValue(SubSeq(f, 1, Len(f) - 1)) + DigitValue(f[Len(f)])

\* Number(field): the empty string is 0, a digit string its value, else NaN.
Number(f) ==
    IF f = <<>> THEN Num(0)
    ELSE IF \A i \in 1..Len(f) : IsDigit(f[i]) THEN Num(DecimalValue(f))
    ELSE NaN

\* const [currentChunk, totalChunks] = chunkRange.split(":").map(Number)
ParseChunkRange(chunkRange) ==
    LET fields == Split(chunkRange)
    IN [currentChunk |-> Number(fields[1]),
        totalChunks |-> IF Len(fields) >= 2 THEN Number(fields[2])
                        ELSE UndefinedNum]

\* ------------------------------------------------------------ wire values
\* A header that is not present on a message (headers[...] is undefined).
Absent == <<"absent">>

\* response.data of an upload response: JSON null, an empty body (""), or
\* an object with or without a message_id.
NullBody == [t |-> "null", message_id |-> Undefined]
EmptyBody == [t |-> "empty", message_id |-> Undefined]
ObjectBody(id) == [t |-> "object", message_id |-> id]
SendBodies ==
    {NullBody, EmptyBody, ObjectBody(Undefined)}
        \cup {ObjectBody(id) : id \in MessageIds}

\* response.data of a download response: a string.
ReadBodies == {<<"a">>, <<"b">>}

\* response.headers["mex-chunk-range"] of a download response: absent, well
\* formed ("<current>:<total>", also with current > total), or malformed.
ChunkRanges ==
    {Absent}
        \cup {FormatRange(k, n) : k \in 1..MaxTotal, n \in 1..MaxTotal}
        \cup {<<>>, <<"1">>, <<":", "2">>, <<"1", ":">>,
              <<"x", ":", "2">>, <<"1", ":", "x">>}

\* if (x) of JavaScript on a response body: null and "" are falsy.
Truthy(data) == data.t = "object"

\* data["message_id"] throws a TypeError exactly when data is null.
PropertyReadThrows(data) == data.t = "null"

\* axios settles a request with a response by validateStatus: it resolves
\* for 2xx and rejects with error.response otherwise.
ValidateStatus(status) == status >= 200 /\ status < 300

\* Failures of a request that carry no response: error.request is set (no
\* response received) or neither is (the request could not be set up).
TransportErrors == {"request", "setup"}

\* ------------------------------------------------------------------ state
VARIABLES
    kind,            \* [Ops -> {"send", "read", "none"}]: the call each op is
    pc,              \* position of each call
    fileContent,     \* send: params.fileContent
    splitChunks,     \* send: result of splitIntoChunks
    chunks,          \* send: compressed chunks
    index,           \* send: index of the upload loop (0-based)
    messageID,       \* send: let messageID; read: params.messageID
    result,          \* send: let result = {status, data}
    chunkedMessage,  \* read: accumulator
    currentChunk,    \* read: currentChunk of the last parsed chunk range
    requests,        \* requests issued so far, in order
    responses,       \* HTTP responses received so far, in order
    inflight,        \* requests issued and not yet settled
    hdrCalls,        \* invocations of generateHeaders
    ret              \* what the call gave back to its caller

vars == <<kind, pc, fileContent, splitChunks, chunks, index, messageID, result,
          chunkedMessage, currentChunk, requests, responses, inflight,
          hdrCalls, ret>>

Payloads == UNION {[1..n -> Bytes] : n \in 0..MaxPayload}

NoReturn == [tag |-> "none"]

InitialResult == [status |-> NullStatus, data |-> NullBody]

\* process.exit(1) ends the host process, hence every call running in it.
Alive == \A p \in Ops : pc[p] # "exited"

\* The state after the calls of the ops in `active` have been entered.
InitWith(active) ==
    /\ kind \in [Ops -> {"send", "read", "none"}]
    /\ \A o \in Ops : (kind[o] = "none") <=> (o \notin active)
    /\ pc = [o \in Ops |-> IF o \in active THEN "start" ELSE "idle"]
    /\ fileContent \in [Ops -> Payloads]
    /\ \A o \in Ops : kind[o] # "send" => fileContent[o] = <<>>
    /\ splitChunks = [o \in Ops |-> <<>>]
    /\ chunks = [o \in Ops |-> <<>>]
    /\ index = [o \in Ops |-> 0]
    /\ messageID \in [Ops -> MessageIds \cup {Undefined}]
    /\ \A o \in Ops : (kind[o] = "read") <=> (messageID[o] # Undefined)
    /\ \A o \in Ops : kind[o] = "read" => messageID[o] = "m1"
    /\ result = [o \in Ops |-> InitialResult]
    /\ chunkedMessage = [o \in Ops |-> <<>>]
    /\ currentChunk = [o \in Ops |-> UndefinedNum]
    /\ requests = [o \in Ops |-> <<>>]
    /\ responses = [o \in Ops |-> <<>>]
    /\ inflight = [o \in Ops |-> 0]
    /\ hdrCalls = [o \in Ops |-> 0]
    /\ ret = [o \in Ops |-> NoReturn]

Init == InitWith({1})

\* ------------------------------------------------------- header provider
\* generateHeaders: a fresh header set for every invocation; the freshness
\* token is modelled by the number of the invocation within the call.
generateHeaders(o) == [nonce |-> hdrCalls[o] + 1, chunkRange |-> Absent]

\* --------------------------------------------------- sendChunkedMessage
Min(a, b) == IF a < b THEN a ELSE b

\* A variant of slice that takes the byte at `end` as well.
Slice_Inclusive(buffer, start, end) ==
    SubSeq(buffer, start + 1, Min(end + 1, Len(buffer)))

\* buffer.slice(start, end)
Slice(buffer, start, end) == SubSeq(buffer, start + 1, Min(end, Len(buffer)))

RECURSIVE SplitFrom(_, _, _)
\* A variant of the loop that runs while i <= buffer.length, so a payload
\* whose length is a multiple of L gets an empty last chunk.
SplitFrom_TrailingEmpty(buffer, i, L) ==
    IF i <= Len(buffer)
    THEN <<Slice(buffer, i, i + L)>> \o SplitFrom(buffer, i + L, L)
    ELSE <<>>

SplitFrom(buffer, i, L) ==
    IF i < Len(buffer)
    THEN <<Slice(buffer, i, i + L)>> \o SplitFrom(buffer, i + L, L)
    ELSE <<>>

\* A variant of splitIntoChunks with the other policy for the empty payload:
\* a single empty chunk.
splitIntoChunks_SingleEmpty(buffer, L) ==
    IF buffer = <<>> THEN <<<<>>>> ELSE SplitFrom(buffer, 0, L)

splitIntoChunks(buffer, L) == SplitFrom(buffer, 0, L)

\* zlib.gzip on success: the compressed form of the chunk.
compressData(chunk) == [gzip |-> chunk]

\* return result
ReturnResult(o, r) ==
    /\ pc' = [pc EXCEPT ![o] = "returned"]
    /\ ret' = [ret EXCEPT ![o] = [tag |-> "result", value |-> r]]

\* A variant of the catch block that ends the process instead of returning.
CatchSend_Exit(o, error) ==
    /\ pc' = [pc EXCEPT ![o] = "exited"]
    /\ UNCHANGED ret

\* The catch block of sendChunkedMessage: every branch logs and returns the
\* error.
CatchSend(o, error) ==
    /\ pc' = [pc EXCEPT ![o] = "returnedError"]
    /\ ret' = [ret EXCEPT ![o] = [tag |-> "error", value |-> error]]

\* process.exit(1)
ProcessExit(o) ==
    /\ pc' = [pc EXCEPT ![o] = "exited"]
    /\ UNCHANGED ret

\* Step 1: chunk the file. With no chunk both loops are skipped and the
\* initial result is returned.
SplitPayload(o) ==
    /\ Alive
    /\ kind[o] = "send"
    /\ pc[o] = "start"
    /\ LET sc == splitIntoChunks(fileContent[o], ChunkLimit)
       IN /\ splitChunks' = [splitChunks EXCEPT ![o] = sc]
          /\ IF sc = <<>>
             THEN ReturnResult(o, result[o])
             ELSE /\ pc' = [pc EXCEPT ![o] = "compress"]
                  /\ UNCHANGED ret
    /\ UNCHANGED <<kind, fileContent, chunks, index, messageID, result,
                   chunkedMessage, currentChunk, requests, responses,
                   inflight, hdrCalls>>

\* Step 2: compress the next chunk; a gzip error rejects the awaited promise
\* and lands in the catch block of sendChunkedMessage.
CompressChunk(o) ==
    /\ Alive
    /\ kind[o] = "send"
    /\ pc[o] = "compress"
    /\ \E ok \in BOOLEAN :
          IF ok
          THEN LET next == splitChunks[o][Len(chunks[o]) + 1]
                   cs == Append(chunks[o], compressData(next))
               IN /\ chunks' = [chunks EXCEPT ![o] = cs]
                  /\ pc' = [pc EXCEPT ![o] =
                              IF Len(cs) = Len(splitChunks[o])
                              THEN "loop" ELSE "compress"]
                  /\ UNCHANGED ret
          ELSE /\ CatchSend(o, [name |-> "gzip", status |-> NullStatus])
               /\ UNCHANGED chunks
    /\ UNCHANGED <<kind, fileContent, splitChunks, index, messageID, result,
                   chunkedMessage, currentChunk, requests, responses,
                   inflight, hdrCalls>>

\* The URL of the upload request for the chunk at `idx` (0-based).
SendUrl(mid, idx) ==
    IF mid # Undefined
    THEN [path |-> "outbox/id/index", id |-> mid, index |-> idx + 1]
    ELSE [path |-> "outbox", id |-> Undefined, index |-> 0]

\* A variant of SendChunk that generates the header set on the first
\* iteration only and attaches it again to every later request.
SendChunk_ReuseHeaders(o) ==
    /\ Alive
    /\ kind[o] = "send"
    /\ pc[o] = "loop"
    /\ LET fresh == index[o] = 0
           base == IF fresh THEN generateHeaders(o)
                   ELSE requests[o][1].headers
           headers == [base EXCEPT
                          !.chunkRange =
                              FormatRange(index[o] + 1, Len(chunks[o]))]
           request == [method |-> "POST",
                       url |-> SendUrl(messageID[o], index[o]),
                       headers |-> headers,
                       data |-> chunks[o][index[o] + 1]]
       IN /\ requests' = [requests EXCEPT ![o] = Append(@, request)]
          /\ hdrCalls' = [hdrCalls EXCEPT ![o] = IF fresh THEN @ + 1 ELSE @]
          /\ inflight' = [inflight EXCEPT ![o] = @ + 1]
          /\ pc' = [pc EXCEPT ![o] = "awaitPost"]
    /\ UNCHANGED <<kind, fileContent, splitChunks, chunks, index, messageID,
                   result, chunkedMessage, currentChunk, responses, ret>>

\* A variant of SendChunk that does not await the request before all chunks
\* are posted: it goes straight on to the next iteration.
SendChunk_NoAwait(o) ==
    /\ Alive
    /\ kind[o] = "send"
    /\ pc[o] = "loop"
    /\ LET headers == [generateHeaders(o) EXCEPT
                          !.chunkRange =
                              FormatRange(index[o] + 1, Len(chunks[o]))]
           request == [method |-> "POST",
                       url |-> SendUrl(messageID[o], index[o]),
                       headers |-> headers,
                       data |-> chunks[o][index[o] + 1]]
       IN /\ requests' = [requests EXCEPT ![o] = Append(@, request)]
          /\ hdrCalls' = [hdrCalls EXCEPT ![o] = @ + 1]
          /\ inflight' = [inflight EXCEPT ![o] = @ + 1]
          /\ index' = [index EXCEPT ![o] =
                          IF @ + 1 < Len(chunks[o]) THEN @ + 1 ELSE @]
          /\ pc' = [pc EXCEPT ![o] =
                       IF index[o] + 1 < Len(chunks[o])
                       THEN "loop" ELSE "awaitPost"]
    /\ UNCHANGED <<kind, fileContent, splitChunks, chunks, messageID,
                   result, chunkedMessage, currentChunk, responses, ret>>

\* Step 3, one iteration up to the awaited axios.post: a new header set, the
\* chunk range, the URL, and the request.
SendChunk(o) ==
    /\ Alive
    /\ kind[o] = "send"
    /\ pc[o] = "loop"
    /\ LET headers == [generateHeaders(o) EXCEPT
                          !.chunkRange =
                              FormatRange(index[o] + 1, Len(chunks[o]))]
           request == [method |-> "POST",
                       url |-> SendUrl(messageID[o], index[o]),
                       headers |-> headers,
                       data |-> chunks[o][index[o] + 1]]
       IN /\ requests' = [requests EXCEPT ![o] = Append(@, request)]
          /\ hdrCalls' = [hdrCalls EXCEPT ![o] = @ + 1]
          /\ inflight' = [inflight EXCEPT ![o] = @ + 1]
          /\ pc' = [pc EXCEPT ![o] = "awaitPost"]
    /\ UNCHANGED <<kind, fileContent, splitChunks, chunks, index, messageID,
                   result, chunkedMessage, currentChunk, responses, ret>>

\* A variant of HandlePostResponse that goes on whatever the status is.
HandlePostResponse_AnyStatus(o, response) ==
    /\ result' = [result EXCEPT ![o] =
                     [status |-> response.status, data |-> response.data]]
    /\ messageID' = [messageID EXCEPT ![o] =
                        IF @ # Undefined THEN @ ELSE response.data.message_id]
    /\ index' = [index EXCEPT ![o] = @ + 1]
    /\ IF index[o] + 1 = Len(chunks[o])
       THEN ReturnResult(o, [status |-> response.status,
                             data |-> response.data])
       ELSE /\ pc' = [pc EXCEPT ![o] = "loop"]
            /\ UNCHANGED ret

\* A variant of HandlePostResponse that keeps the message identifier in one
\* place shared by all calls instead of a local of the call.
HandlePostResponse_SharedId(o, response) ==
    IF response.status = 202
    THEN LET r == IF Truthy(response.data)
                  THEN [status |-> response.status, data |-> response.data]
                  ELSE result[o]
         IN /\ result' = [result EXCEPT ![o] = r]
            /\ IF messageID[o] = Undefined /\ PropertyReadThrows(response.data)
               THEN /\ CatchSend(o, [name |-> "TypeError",
                                     status |-> NullStatus])
                    /\ UNCHANGED <<messageID, index>>
               ELSE /\ messageID' =
                          IF messageID[o] # Undefined THEN messageID
                          ELSE [p \in Ops |-> response.data.message_id]
                    /\ index' = [index EXCEPT ![o] = @ + 1]
                    /\ IF index[o] + 1 = Len(chunks[o])
                       THEN ReturnResult(o, r)
                       ELSE /\ pc' = [pc EXCEPT ![o] = "loop"]
                            /\ UNCHANGED ret
    ELSE /\ ProcessExit(o)
         /\ UNCHANGED <<result, messageID, index>>

\* The continuation of the awaited axios.post when it resolves with
\* `response`.
HandlePostResponse(o, response) ==
    IF response.status = 202
    THEN LET r == IF Truthy(response.data)
                  THEN [status |-> response.status, data |-> response.data]
                  ELSE result[o]
         IN /\ result' = [result EXCEPT ![o] = r]
            /\ IF messageID[o] = Undefined /\ PropertyReadThrows(response.data)
               THEN /\ CatchSend(o, [name |-> "TypeError",
                                     status |-> NullStatus])
                    /\ UNCHANGED <<messageID, index>>
               ELSE /\ messageID' = [messageID EXCEPT ![o] =
                                        IF @ # Undefined THEN @
                                        ELSE response.data.message_id]
                    /\ index' = [index EXCEPT ![o] = @ + 1]
                    /\ IF index[o] + 1 = Len(chunks[o])
                       THEN ReturnResult(o, r)
                       ELSE /\ pc' = [pc EXCEPT ![o] = "loop"]
                            /\ UNCHANGED ret
    ELSE /\ ProcessExit(o)
         /\ UNCHANGED <<result, messageID, index>>

\* The awaited axios.post settles: with a response (resolved for 2xx,
\* rejected with error.response otherwise) or with a transport error.
PostResponse(o) ==
    /\ Alive
    /\ kind[o] = "send"
    /\ pc[o] = "awaitPost"
    /\ inflight' = [inflight EXCEPT ![o] = @ - 1]
    /\ \/ \E status \in Statuses, data \in SendBodies :
             LET response == [status |-> status, data |-> data]
             IN /\ responses' = [responses EXCEPT ![o] = Append(@, response)]
                /\ IF ValidateStatus(status)
                   THEN HandlePostResponse(o, response)
                   ELSE /\ CatchSend(o, [name |-> "response",
                                         status |-> status])
                        /\ UNCHANGED <<result, messageID, index>>
       \/ \E e \in TransportErrors :
             /\ CatchSend(o, [name |-> e, status |-> NullStatus])
             /\ UNCHANGED <<responses, result, messageID, index>>
    /\ UNCHANGED <<kind, fileContent, splitChunks, chunks, chunkedMessage,
                   currentChunk, requests, hdrCalls>>

\* ------------------------------------------------------------ readMessage
\* The URL of a download request: the message itself, or one of its chunks.
ReadUrl(mid, chunk) ==
    IF chunk = 0
    THEN [path |-> "inbox/id", id |-> mid, index |-> 0]
    ELSE [path |-> "inbox/id/index", id |-> mid, index |-> chunk]

\* axios.get(fullUrl, config) with a new header set, up to the await.
IssueGet(o, chunk) ==
    /\ requests' = [requests EXCEPT ![o] =
                       Append(@, [method |-> "GET",
                                  url |-> ReadUrl(messageID[o], chunk),
                                  headers |-> generateHeaders(o),
                                  data |-> <<>>])]
    /\ hdrCalls' = [hdrCalls EXCEPT ![o] = @ + 1]
    /\ inflight' = [inflight EXCEPT ![o] = @ + 1]

\* Entry of readMessage up to the first awaited axios.get.
ReadStart(o) ==
    /\ Alive
    /\ kind[o] = "read"
    /\ pc[o] = "start"
    /\ IssueGet(o, 0)
    /\ pc' = [pc EXCEPT ![o] = "awaitInitial"]
    /\ UNCHANGED <<kind, fileContent, splitChunks, chunks, index, messageID,
                   result, chunkedMessage, currentChunk, responses, ret>>

\* The catch block of readMessage: console.error and process.exit(1).
CatchRead(o) == ProcessExit(o)

\* A variant of the loop body that appends the body only when another chunk
\* is to be fetched, so the body of the last chunk is lost.
ChunkBody_DropLast(o, response) ==
    IF response.range = Absent
    THEN /\ CatchRead(o)
         /\ UNCHANGED <<chunkedMessage, currentChunk>>
    ELSE LET r == ParseChunkRange(response.range)
         IN /\ currentChunk' = [currentChunk EXCEPT ![o] = r.currentChunk]
            /\ IF LessThan(r.currentChunk, r.totalChunks)
               THEN /\ chunkedMessage' = [chunkedMessage EXCEPT ![o] =
                                             @ \o response.data]
                    /\ pc' = [pc EXCEPT ![o] = "fetch"]
                    /\ UNCHANGED ret
               ELSE /\ UNCHANGED chunkedMessage
                    /\ ReturnResult(o, [status |-> 206,
                                        data |-> chunkedMessage[o]])

\* One pass of the do-while body on `response`: append the body, parse the
\* chunk range, then go on to the next chunk or leave the loop and return.
ChunkBody(o, response) ==
    LET msg == chunkedMessage[o] \o response.data
    IN /\ chunkedMessage' = [chunkedMessage EXCEPT ![o] = msg]
       /\ IF response.range = Absent
          THEN \* chunkRange.split on undefined throws a TypeError
               /\ CatchRead(o)
               /\ UNCHANGED currentChunk
          ELSE LET r == ParseChunkRange(response.range)
               IN /\ currentChunk' = [currentChunk EXCEPT ![o] =
                                         r.currentChunk]
                  /\ IF LessThan(r.currentChunk, r.totalChunks)
                     THEN /\ pc' = [pc EXCEPT ![o] = "fetch"]
                          /\ UNCHANGED ret
                     ELSE ReturnResult(o, [status |-> 206, data |-> msg])

\* A variant of the status dispatch that takes every response carrying a
\* chunk range for a chunked one, status 200 included.
HandleInitialResponse_RangeDecides(o, response) ==
    IF response.status \in {200, 206} /\ response.range # Absent
    THEN ChunkBody(o, response)
    ELSE IF response.status = 200
    THEN /\ pc' = [pc EXCEPT ![o] = "returned"]
         /\ ret' = [ret EXCEPT ![o] = [tag |-> "response",
                                       value |-> response]]
         /\ UNCHANGED <<chunkedMessage, currentChunk>>
    ELSE /\ ProcessExit(o)
         /\ UNCHANGED <<chunkedMessage, currentChunk>>

\* The status dispatch on the initial response.
HandleInitialResponse(o, response) ==
    IF response.status = 200
    THEN /\ pc' = [pc EXCEPT ![o] = "returned"]
         /\ ret' = [ret EXCEPT ![o] = [tag |-> "response",
                                       value |-> response]]
         /\ UNCHANGED <<chunkedMessage, currentChunk>>
    ELSE IF response.status = 206
    THEN ChunkBody(o, response)
    ELSE /\ ProcessExit(o)
         /\ UNCHANGED <<chunkedMessage, currentChunk>>

\* A rejection of the initial axios.get, which is awaited outside the try
\* block: the promise readMessage returned rejects.
RejectToCaller(o, error) ==
    /\ pc' = [pc EXCEPT ![o] = "threw"]
    /\ ret' = [ret EXCEPT ![o] = [tag |-> "exception", value |-> error]]

\* The initial axios.get settles.
InitialResponse(o) ==
    /\ Alive
    /\ kind[o] = "read"
    /\ pc[o] = "awaitInitial"
    /\ inflight' = [inflight EXCEPT ![o] = @ - 1]
    /\ \/ \E status \in Statuses, data \in ReadBodies, range \in ChunkRanges :
             LET response == [status |-> status, data |-> data,
                              range |-> range]
             IN /\ responses' = [responses EXCEPT ![o] = Append(@, response)]
                /\ IF ValidateStatus(status)
                   THEN HandleInitialResponse(o, response)
                   ELSE /\ RejectToCaller(o, [name |-> "response",
                                              status |-> status])
                        /\ UNCHANGED <<chunkedMessage, currentChunk>>
       \/ \E e \in TransportErrors :
             /\ RejectToCaller(o, [name |-> e, status |-> NullStatus])
             /\ UNCHANGED <<responses, chunkedMessage, currentChunk>>
    /\ UNCHANGED <<kind, fileContent, splitChunks, chunks, index, messageID,
                   result, requests, hdrCalls>>

\* A variant of FetchNext that counts the chunks itself: it asks for the
\* chunk after the number of requests issued so far.
FetchNext_SequentialIndex(o) ==
    /\ Alive
    /\ kind[o] = "read"
    /\ pc[o] = "fetch"
    /\ Len(requests[o]) < MaxRequests
    /\ IssueGet(o, Len(requests[o]) + 1)
    /\ pc' = [pc EXCEPT ![o] = "awaitChunk"]
    /\ UNCHANGED <<kind, fileContent, splitChunks, chunks, index, messageID,
                   result, chunkedMessage, currentChunk, responses, ret>>

\* currentChunk < totalChunks: a new header set and the request for the next
\* chunk, up to the await.
FetchNext(o) ==
    /\ Alive
    /\ kind[o] = "read"
    /\ pc[o] = "fetch"
    /\ Len(requests[o]) < MaxRequests
    /\ IssueGet(o, currentChunk[o].v + 1)
    /\ pc' = [pc EXCEPT ![o] = "awaitChunk"]
    /\ UNCHANGED <<kind, fileContent, splitChunks, chunks, index, messageID,
                   result, chunkedMessage, currentChunk, responses, ret>>

\* An axios.get of the chunk loop settles: a resolved response goes round
\* the loop whatever its status, a rejection lands in the catch block.
ChunkResponse(o) ==
    /\ Alive
    /\ kind[o] = "read"
    /\ pc[o] = "awaitChunk"
    /\ inflight' = [inflight EXCEPT ![o] = @ - 1]
    /\ \/ \E status \in Statuses, data \in ReadBodies, range \in ChunkRanges :
             LET response == [status |-> status, data |-> data,
                              range |-> range]
             IN /\ responses' = [responses EXCEPT ![o] = Append(@, response)]
                /\ IF ValidateStatus(status)
                   THEN ChunkBody(o, response)
                   ELSE /\ CatchRead(o)
                        /\ UNCHANGED <<chunkedMessage, currentChunk>>
       \/ \E e \in TransportErrors :
             /\ CatchRead(o)
             /\ UNCHANGED <<responses, chunkedMessage, currentChunk>>
    /\ UNCHANGED <<kind, fileContent, splitChunks, chunks, index, messageID,
                   result, requests, hdrCalls>>

Next ==
    \E o \in Ops :
        \/ SplitPayload(o)
        \/ CompressChunk(o)
        \/ SendChunk(o)
        \/ PostResponse(o)
        \/ ReadStart(o)
        \/ InitialResponse(o)
        \/ FetchNext(o)
        \/ ChunkResponse(o)

Spec == Init /\ [][Next]_vars

\* ------------------------------------------------- vocabulary of the claims
IsSend(o) == kind[o] = "send"
IsRead(o) == kind[o] = "read"

Ended(o) == pc[o] \in {"returned", "returnedError", "exited", "threw"}

\* N: the number of chunks the payload of call o splits into.
NumChunks(o) == Len(splitIntoChunks(fileContent[o], ChunkLimit))

Last(seq) == seq[Len(seq)]

\* Every request issued so far has been answered by an HTTP response.
AllAnswered(o) == Len(responses[o]) = Len(requests[o])

AllAccepted(o) == \A i \in 1..Len(responses[o]) : responses[o][i].status = 202

\* ---------------------------------------------------------------- C1
\* C1: a sendChunkedMessage call that has ended, whose payload split into
\* N >= 1 chunks (all compressed) and in which every request was answered
\* with status 202, has issued exactly N POST requests, the k-th carrying
\* chunk k and the header mex-chunk-range "k:N".
C1_AcceptedSendIssuesAllChunks ==
    \A o \in Ops :
        (/\ IsSend(o)
         /\ Ended(o)
         /\ NumChunks(o) >= 1
         /\ Len(chunks[o]) = NumChunks(o)
         /\ AllAnswered(o)
         /\ AllAccepted(o))
        => /\ Len(requests[o]) = NumChunks(o)
           /\ \A k \in 1..Len(requests[o]) :
                 /\ requests[o][k].method = "POST"
                 /\ requests[o][k].data = chunks[o][k]
                 /\ requests[o][k].headers.chunkRange
                        = FormatRange(k, NumChunks(o))

\* ---------------------------------------------------------------- C2
\* C2: in a send with N > 1 chunks, request 1 goes to the collection
\* endpoint without identifier, and every request k >= 2 goes to the
\* identifier+index endpoint with index k and the message_id of the first
\* response.
C2_LaterChunksUseFirstMessageId ==
    \A o \in Ops :
        (IsSend(o) /\ NumChunks(o) > 1)
        => \A k \in 1..Len(requests[o]) :
              IF k = 1
              THEN /\ requests[o][k].url.path = "outbox"
                   /\ requests[o][k].url.id = Undefined
              ELSE /\ requests[o][k].url.path = "outbox/id/index"
                   /\ requests[o][k].url.index = k
                   /\ requests[o][k].url.id
                          = responses[o][1].data.message_id

\* ---------------------------------------------------------------- C3
\* C3: when a send of N >= 1 chunks returns its result, the result's status
\* and data are those of the response to the final chunk request.
C3_ResultIsFinalResponse ==
    \A o \in Ops :
        (/\ IsSend(o)
         /\ pc[o] = "returned"
         /\ NumChunks(o) >= 1)
        => /\ ret[o].value.status = Last(responses[o]).status
           /\ ret[o].value.data = Last(responses[o]).data

RequestedChunk(request) ==
    IF request.url.path = "inbox/id" THEN 1 ELSE request.url.index

\* The server answers every request for chunk k with chunk range "k:n".
ServerFollowsRange(o, n) ==
    \A i \in 1..Len(responses[o]) :
        /\ RequestedChunk(requests[o][i]) <= n
        /\ responses[o][i].range
               = FormatRange(RequestedChunk(requests[o][i]), n)

RECURSIVE ConcatBodies(_)
ConcatBodies(rs) ==
    IF rs = <<>> THEN <<>>
    ELSE ConcatBodies(SubSeq(rs, 1, Len(rs) - 1)) \o rs[Len(rs)].data

\* C5: in readMessage, when the initial response has status 206 and the
\* server answers the request for chunk k with chunk range "k:N", the call
\* asks for the identifier endpoint and then for the indexes 2..N in order,
\* never for more, keeps the concatenation of the bodies received so far,
\* and after the N-th response returns {status: 206, data: D} with D the
\* concatenation of the N bodies in fetch order.
C5_ChunkedReadAssembles ==
    \A o \in Ops : \A n \in 1..MaxTotal :
        (/\ IsRead(o)
         /\ Len(responses[o]) >= 1
         /\ responses[o][1].status = 206
         /\ \A i \in 1..Len(responses[o]) :
               ValidateStatus(responses[o][i].status)
         /\ AllAnswered(o)
         /\ ServerFollowsRange(o, n))
        => /\ Len(requests[o]) <= n
           /\ \A k \in 1..Len(requests[o]) :
                 /\ requests[o][k].method = "GET"
                 /\ requests[o][k].url
                        = ReadUrl(messageID[o], IF k = 1 THEN 0 ELSE k)
           /\ chunkedMessage[o] = ConcatBodies(responses[o])
           /\ IF Len(responses[o]) = n
              THEN /\ pc[o] = "returned"
                   /\ ret[o] = [tag |-> "result",
                                value |-> [status |-> 206,
                                           data |-> ConcatBodies(responses[o])]]
              ELSE pc[o] = "fetch" /\ ret[o] = NoReturn

\* A download in two parts, statuses 206 then 200 and chunk ranges 1:2 and
\* 2:2, assembled after exactly two requests.
C5_Witness ==
    \E o \in Ops :
        /\ IsRead(o)
        /\ pc[o] = "returned"
        /\ Len(requests[o]) = 2
        /\ Len(responses[o]) = 2
        /\ ServerFollowsRange(o, 2)
        /\ responses[o][1].status = 206
        /\ responses[o][2].status = 200
        /\ ret[o].value = [status |-> 206, data |-> <<"a", "b">>]

\* ---------------------------------------------------------------- C6
\* C6: in readMessage, when the initial response has status 200 the call
\* returns that response itself and has issued exactly one GET, whatever
\* mex-chunk-range header the response carries.
C6_CompleteReadReturnsResponse ==
    \A o \in Ops :
        (/\ IsRead(o)
         /\ Len(responses[o]) >= 1
         /\ responses[o][1].status = 200)
        => /\ pc[o] = "returned"
           /\ ret[o] = [tag |-> "response", value |-> responses[o][1]]
           /\ Len(requests[o]) = 1
           /\ Len(responses[o]) = 1
           /\ requests[o][1].method = "GET"
           /\ inflight[o] = 0

\* A status 200 response that carries the chunk range of a first chunk.
C6_Witness ==
    \E o \in Ops :
        /\ IsRead(o)
        /\ pc[o] = "returned"
        /\ responses[o][1].status = 200
        /\ responses[o][1].range = FormatRange(1, 2)
        /\ ret[o].value = responses[o][1]

\* ---------------------------------------------------------------- C7
\* C7: in readMessage, a response (the initial one or one fetched in the
\* chunk loop) whose status is outside {200, 206} ends the call at once: it
\* is the last response, no further request is issued, its body is not in
\* the accumulator, and the call gives no result back.
C7_BadStatusEndsRead ==
    \A o \in Ops :
        IsRead(o) =>
            \A i \in 1..Len(responses[o]) :
                responses[o][i].status \notin {200, 206}
                => /\ i = Len(responses[o])
                   /\ Len(requests[o]) = i
                   /\ chunkedMessage[o]
                          = ConcatBodies(SubSeq(responses[o], 1, i - 1))
                   /\ pc[o] \in {"exited", "threw"}
                   /\ ret[o].tag \notin {"result", "response"}

\* ---------------------------------------------------------------- C8
\* C8: in every state of a send or receive, generateHeaders has been invoked
\* as many times as requests were issued, the k-th request carries the
\* header set of the k-th invocation, and no two requests of the call carry
\* the same header set.
C8_OneHeaderSetPerRequest ==
    \A o \in Ops :
        /\ hdrCalls[o] = Len(requests[o])
        /\ \A k \in 1..Len(requests[o]) :
              requests[o][k].headers.nonce = k
        /\ \A j, k \in 1..Len(requests[o]) :
              requests[o][j].headers = requests[o][k].headers => j = k

\* A call that has issued three requests, each under its own header set.
C8_Witness ==
    \E o \in Ops :
        /\ Len(requests[o]) = 3
        /\ hdrCalls[o] = 3
        /\ requests[o][3].headers.nonce = 3

\* ---------------------------------------------------------------- C9
\* C9: a call never has more than one request in flight, and request k+1
\* exists only when the response to request k has been received and
\* processed: on upload the loop index has passed chunk k and the message
\* identifier was read off the response that set it, on download the
\* chunk range of response k was parsed and names the chunk asked for next.
C9_OneRequestInFlight ==
    \A o \in Ops :
        /\ inflight[o] \in {0, 1}
        /\ inflight[o] = 1 <=>
               pc[o] \in {"awaitPost", "awaitInitial", "awaitChunk"}
        /\ inflight[o] = 1 => Len(responses[o]) = Len(requests[o]) - 1
        /\ Len(responses[o]) <= Len(requests[o])
        /\ Len(requests[o]) <= Len(responses[o]) + 1
        /\ \A k \in 1..(Len(requests[o]) - 1) :
              IF IsSend(o)
              THEN /\ index[o] >= k
                   /\ requests[o][k + 1].url.id # Undefined
                      => \E i \in 1..k :
                            /\ responses[o][i].data.message_id
                                   = requests[o][k + 1].url.id
                            /\ \A j \in 1..(i - 1) :
                                  responses[o][j].data.message_id = Undefined
              ELSE /\ LessThan(
                          ParseChunkRange(responses[o][k].range).currentChunk,
                          ParseChunkRange(responses[o][k].range).totalChunks)
                   /\ requests[o][k + 1].url.index
                          = ParseChunkRange(responses[o][k].range)
                                .currentChunk.v + 1

\* A call waiting for the response to its third request.
C9_Witness ==
    \E o \in Ops :
        /\ inflight[o] = 1
        /\ Len(requests[o]) = 3
        /\ Len(responses[o]) = 2

\* ---------------------------------------------------------------- C10
\* A request of call o was settled without any response: a transport
\* failure (no response received, or the request could not be set up).
FailedWithoutResponse(o) ==
    inflight[o] = 0 /\ Len(requests[o]) = Len(responses[o]) + 1

C11_ReadTransportFailureIsSurfaced ==
    \A o \in Ops :
        (IsRead(o) /\ FailedWithoutResponse(o))
        => /\ pc[o] = "threw"
           /\ ret[o].tag = "exception"
           /\ Alive

\* ---------------------------------------------------------------- C12
\* A chunk range of the form "<integer>:<integer>": present, exactly two
\* fields, both non-empty digit strings.
WellFormedRange(range) ==
    /\ range # Absent
    /\ Len(Split(range)) = 2
    /\ \A f \in 1..2 :
          /\ Split(range)[f] # <<>>
          /\ \A i \in 1..Len(Split(range)[f]) : IsDigit(Split(range)[f][i])

\* The responses whose chunk range the chunked path of call o has read: the
\* resolved ones, once the initial response had status 206.
RangeWasRead(o, i) ==
    /\ i \in 1..Len(responses[o])
    /\ responses[o][1].status = 206
    /\ ValidateStatus(responses[o][i].status)

\* C12: a readMessage call that has read a chunk range that is absent or not
\* of the form "<integer>:<integer>" gives no assembled result back.
C12_MalformedRangeGivesNoResult ==
    \A o \in Ops :
        IsRead(o) =>
            \A i \in 1..Len(responses[o]) :
                (RangeWasRead(o, i) /\ ~WellFormedRange(responses[o][i].range))
                => ret[o].tag # "result"

\* ---------------------------------------------------------------- C13
\* The compression of some chunk of call o failed: the call has ended with
\* fewer compressed chunks than split chunks.
CompressionFailed(o) ==
    IsSend(o) /\ Ended(o) /\ Len(chunks[o]) < Len(splitChunks[o])

\* C13: a send in which the compression of a chunk failed has ended in the
\* fatal abort (process exit), has returned nothing, and has issued no
\* request for any chunk.
C13_CompressionFailureIsFatal ==
    \A o \in Ops :
        CompressionFailed(o)
        => /\ pc[o] = "exited"
           /\ ret[o] = NoReturn
           /\ requests[o] = <<>>

\* ---------------------------------------------------------------- C14
RECURSIVE ConcatChunks(_)
ConcatChunks(cs) ==
    IF cs = <<>> THEN <<>>
    ELSE ConcatChunks(SubSeq(cs, 1, Len(cs) - 1)) \o cs[Len(cs)]

\* The chunk size limits the split is checked with: from 1 to beyond the
\* longest payload.
ChunkLimits == 1..(MaxPayload + 1)

\* C14: for every payload P handed to a send and every chunk size limit
\* L > 0, the chunks of splitIntoChunks(P) concatenated in order are P; so
\* are the chunks the call has split its payload into.
C14_SplitRoundTrip ==
    \A o \in Ops :
        IsSend(o)
        => /\ \A L \in ChunkLimits :
                 ConcatChunks(splitIntoChunks(fileContent[o], L))
                     = fileContent[o]
           /\ pc[o] # "start"
              => ConcatChunks(splitChunks[o]) = fileContent[o]

\* A payload of five bytes split into three chunks, the last one shorter.
C14_Witness ==
    \E o \in Ops :
        /\ IsSend(o)
        /\ pc[o] = "compress"
        /\ fileContent[o] = <<0, 1, 1, 0, 1>>
        /\ splitChunks[o] = <<<<0, 1>>, <<1, 0>>, <<1>>>>

\* ---------------------------------------------------------------- C15
\* The chunk sequence cs of a payload P for the limit L: every chunk but the
\* last has length L, the last has a length in (0, L], there are
\* ceil(|P| / L) chunks, none is empty, and the empty payload has none.
ChunkBound(P, L, cs) ==
    /\ Len(cs) = (Len(P) + L - 1) \div L
    /\ \A k \in 1..(Len(cs) - 1) : Len(cs[k]) = L
    /\ Len(cs) >= 1 => (Len(cs[Len(cs)]) > 0 /\ Len(cs[Len(cs)]) <= L)
    /\ \A k \in 1..Len(cs) : cs[k] # <<>>
    /\ P = <<>> => cs = <<>>

\* C15: for every payload P handed to a send and every chunk size limit
\* L > 0, splitIntoChunks(P) meets the chunk bound; so do the chunks the
\* call has split its payload into.
C15_ChunkLengths ==
    \A o \in Ops :
        IsSend(o)
        => /\ \A L \in ChunkLimits :
                 ChunkBound(fileContent[o], L,
                            splitIntoChunks(fileContent[o], L))
           /\ pc[o] # "start"
              => ChunkBound(fileContent[o], ChunkLimit, splitChunks[o])

\* A payload whose length is a multiple of the limit: two full chunks.
C15_Witness ==
    \E o \in Ops :
        /\ IsSend(o)
        /\ pc[o] = "compress"
        /\ Len(fileContent[o]) = 2 * ChunkLimit
        /\ Len(splitChunks[o]) = 2
        /\ Len(splitChunks[o][2]) = ChunkLimit

\* ---------------------------------------------------------------- C16
\* The chunk range of a response, parsed as the loop parses it.
RangeOf(response) == ParseChunkRange(response.range)

\* C16: in the chunked path of readMessage the loop goes on to the next
\* chunk exactly while the just-fetched response has current < total, and an
\* assembled result is returned only after a response whose chunk range has
\* current = total (stated for the well-formed chunk ranges).
C16_ReturnsOnlyAtLastChunk ==
    \A o \in Ops :
        (/\ IsRead(o)
         /\ Len(responses[o]) >= 1
         /\ RangeWasRead(o, Len(responses[o]))
         /\ WellFormedRange(Last(responses[o]).range))
        => LET r == RangeOf(Last(responses[o]))
           IN /\ LessThan(r.currentChunk, r.totalChunks)
                 => pc[o] \in {"fetch", "awaitChunk"}
              /\ ret[o].tag = "result"
                 => /\ r.currentChunk.t = "num"
                    /\ r.totalChunks.t = "num"
                    /\ r.currentChunk.v = r.totalChunks.v

\* ---------------------------------------------------------------- C18
\* C18: in readMessage, every request after the initial one goes to the
\* identifier+index endpoint with index current + 1, where current is the
\* chunk index in the mex-chunk-range of the response just before it, and
\* every request of the call carries the messageID the caller supplied.
C18_NextIndexFollowsCursor ==
    \A o \in Ops :
        IsRead(o)
        => /\ messageID[o] \in MessageIds
           /\ \A k \in 1..Len(requests[o]) :
                 /\ requests[o][k].url.id = messageID[o]
                 /\ k = 1 => requests[o][k].url.path = "inbox/id"
                 /\ k > 1
                    => /\ requests[o][k].url.path = "inbox/id/index"
                       /\ RangeOf(responses[o][k - 1]).currentChunk.t = "num"
                       /\ requests[o][k].url.index
                              = RangeOf(responses[o][k - 1]).currentChunk.v + 1

\* A read whose server named chunk 1 of 2 twice: chunk 2 is asked for twice.
C18_Witness ==
    \E o \in Ops :
        /\ IsRead(o)
        /\ Len(requests[o]) = 3
        /\ responses[o][1].range = FormatRange(1, 2)
        /\ responses[o][2].range = FormatRange(1, 2)
        /\ requests[o][2].url.index = 2
        /\ requests[o][3].url.index = 2

\* ---------------------------------------------------------------- C19
\* C19: a send of the empty payload splits it into zero chunks, generates no
\* header set, issues no request and returns the initial result
\* {status: null, data: null}.
C19_EmptyPayloadSendsNothing ==
    \A o \in Ops :
        (IsSend(o) /\ fileContent[o] = <<>>)
        => /\ hdrCalls[o] = 0
           /\ requests[o] = <<>>
           /\ chunks[o] = <<>>
           /\ pc[o] \in {"start", "returned"}
           /\ pc[o] = "returned"
              => /\ splitChunks[o] = <<>>
                 /\ ret[o] = [tag |-> "result", value |-> InitialResult]

\* The send of the empty payload has returned.
C19_Witness ==
    \E o \in Ops :
        /\ IsSend(o)
        /\ fileContent[o] = <<>>
        /\ pc[o] = "returned"
        /\ ret[o].value.status = NullStatus

\* ------------------------------------------------- specification with fairness
\* The chunk loop of readMessage has no bound of its own, so for liveness it
\* is modelled without the MaxRequests guard. To keep the state finite the
\* logs `requests` and `responses` record the first MaxRequests exchanges
\* only, and a server answer past the logged ones has an empty body.
LiveBodies(o) ==
    IF Len(responses[o]) < MaxRequests THEN ReadBodies ELSE {<<>>}

\* currentChunk < totalChunks: the request for the next chunk, up to the
\* await.
LiveFetchNext(o) ==
    /\ Alive
    /\ kind[o] = "read"
    /\ pc[o] = "fetch"
    /\ IF Len(requests[o]) < MaxRequests
       THEN IssueGet(o, currentChunk[o].v + 1)
       ELSE /\ inflight' = [inflight EXCEPT ![o] = @ + 1]
            /\ UNCHANGED <<requests, hdrCalls>>
    /\ pc' = [pc EXCEPT ![o] = "awaitChunk"]
    /\ UNCHANGED <<kind, fileContent, splitChunks, chunks, index, messageID,
                   result, chunkedMessage, currentChunk, responses, ret>>

\* An axios.get of the chunk loop settles.
LiveChunkResponse(o) ==
    /\ Alive
    /\ kind[o] = "read"
    /\ pc[o] = "awaitChunk"
    /\ inflight' = [inflight EXCEPT ![o] = @ - 1]
    /\ \/ \E status \in Statuses, data \in LiveBodies(o),
             range \in ChunkRanges :
             LET response == [status |-> status, data |-> data,
                              range |-> range]
             IN /\ responses' = [responses EXCEPT ![o] =
                                    IF Len(@) < MaxRequests
                                    THEN Append(@, response) ELSE @]
                /\ IF ValidateStatus(status)
                   THEN ChunkBody(o, response)
                   ELSE /\ CatchRead(o)
                        /\ UNCHANGED <<chunkedMessage, currentChunk>>
       \/ \E e \in TransportErrors :
             /\ CatchRead(o)
             /\ UNCHANGED <<responses, chunkedMessage, currentChunk>>
    /\ UNCHANGED <<kind, fileContent, splitChunks, chunks, index, messageID,
                   result, requests, hdrCalls>>

LiveNext ==
    \E o \in Ops :
        \/ SplitPayload(o)
        \/ CompressChunk(o)
        \/ SendChunk(o)
        \/ PostResponse(o)
        \/ ReadStart(o)
        \/ InitialResponse(o)
        \/ LiveFetchNext(o)
        \/ LiveChunkResponse(o)

\* Every step that can be taken is eventually taken: the code runs on, and
\* every request issued eventually responds or fails.
SpecLive == Init /\ [][LiveNext]_vars /\ WF_vars(LiveNext)

\* ---------------------------------------------------------------- C17
\* C17: every send or read, once started, eventually ends (completion, fatal
\* error or transport failure) provided every request eventually responds
\* or fails.
C17_EveryOperationEnds ==
    <>(\A o \in Ops : kind[o] # "none" => Ended(o))

\* C17, the send half: every send eventually ends.
C17_EverySendEnds ==
    <>(\A o \in Ops : IsSend(o) => Ended(o))

\* C17, the send half: a send issues at most one request per chunk.
C17_SendRequestsAtMostChunks ==
    \A o \in Ops : IsSend(o) => Len(requests[o]) <= Len(splitChunks[o])

\* ------------------------------------------- specification with two calls
\* Two calls entered in the same process, their steps interleaved at the
\* await points. To keep the product of the two calls small the payloads,
\* the server's answers and the number of requests of each call are taken
\* from small sets.
MaxConcRequests == 2

ConcPayloads == {<<>>, <<0>>, <<0, 1, 1>>}

ConcSendBodies == {NullBody, ObjectBody("m1"), ObjectBody("m2")}

ConcReadBodies == {<<"a">>}

ConcRanges == {Absent, FormatRange(1, 2), FormatRange(2, 2), <<":", "2">>}

\* Both calls are entered; the two reads are for different messages.
InitConc ==
    /\ kind \in [Ops -> {"send", "read"}]
    /\ pc = [o \in Ops |-> "start"]
    /\ fileContent \in [Ops -> ConcPayloads]
    /\ \A o \in Ops : kind[o] # "send" => fileContent[o] = <<>>
    /\ splitChunks = [o \in Ops |-> <<>>]
    /\ chunks = [o \in Ops |-> <<>>]
    /\ index = [o \in Ops |-> 0]
    /\ messageID = [o \in Ops |->
                       IF kind[o] = "read"
                       THEN (IF o = 1 THEN "m1" ELSE "m2")
                       ELSE Undefined]
    /\ result = [o \in Ops |-> InitialResult]
    /\ chunkedMessage = [o \in Ops |-> <<>>]
    /\ currentChunk = [o \in Ops |-> UndefinedNum]
    /\ requests = [o \in Ops |-> <<>>]
    /\ responses = [o \in Ops |-> <<>>]
    /\ inflight = [o \in Ops |-> 0]
    /\ hdrCalls = [o \in Ops |-> 0]
    /\ ret = [o \in Ops |-> NoReturn]

\* The answers the server gives in the two-call specification.
ConcAnswers ==
    \A o \in Ops :
        \A i \in 1..Len(responses[o]) :
            IF kind[o] = "send"
            THEN responses[o][i].data \in ConcSendBodies
            ELSE /\ responses[o][i].data \in ConcReadBodies
                 /\ responses[o][i].range \in ConcRanges

ConcNext ==
    \E o \in Ops :
        \/ SplitPayload(o)
        \/ CompressChunk(o)
        \/ SendChunk(o)
        \/ PostResponse(o) /\ ConcAnswers'
        \/ ReadStart(o)
        \/ InitialResponse(o) /\ ConcAnswers'
        \/ FetchNext(o) /\ Len(requests[o]) < MaxConcRequests
        \/ ChunkResponse(o) /\ ConcAnswers'

SpecConc == InitConc /\ [][ConcNext]_vars

\* ---------------------------------------------------------------- C20
\* What a call computes from its own exchange with the server.

\* The message identifier a send holds after the responses rs: the
\* message_id of the first 202 response that has one.
RECURSIVE FirstId(_)
FirstId(rs) ==
    IF rs = <<>> THEN Undefined
    ELSE LET before == FirstId(SubSeq(rs, 1, Len(rs) - 1))
         IN IF before # Undefined THEN before
            ELSE IF Last(rs).status = 202 THEN Last(rs).data.message_id
            ELSE Undefined

\* The result a send holds after the responses rs: the last 202 response
\* with a truthy body.
RECURSIVE LastResult(_)
LastResult(rs) ==
    IF rs = <<>> THEN InitialResult
    ELSE IF Last(rs).status = 202 /\ Truthy(Last(rs).data)
    THEN [status |-> 202, data |-> Last(rs).data]
    ELSE LastResult(SubSeq(rs, 1, Len(rs) - 1))

\* The i-th response took the send to its next iteration.
PassedOn(rs, i) ==
    /\ rs[i].status = 202
    /\ ~(PropertyReadThrows(rs[i].data)
         /\ FirstId(SubSeq(rs, 1, i - 1)) = Undefined)

\* The chunk cursor a read holds after the responses rs it has processed.
RECURSIVE CursorAfter(_)
CursorAfter(rs) ==
    IF rs = <<>> THEN UndefinedNum
    ELSE IF Last(rs).range # Absent THEN RangeOf(Last(rs)).currentChunk
    ELSE CursorAfter(SubSeq(rs, 1, Len(rs) - 1))

Resolved(response) == ValidateStatus(response.status)

\* The responses a read has taken through its loop body.
Processed(rs) ==
    IF rs # <<>> /\ rs[1].status = 206 THEN SelectSeq(rs, Resolved) ELSE <<>>

\* A send's identifier, cursor, result, requests and return value as
\* computed from its own payload and its own responses.
SendFromOwnExchange(o) ==
    LET rs == responses[o]
        cs == splitIntoChunks(fileContent[o], ChunkLimit)
    IN /\ messageID[o] = FirstId(rs)
       /\ result[o] = LastResult(rs)
       /\ index[o] = Cardinality({i \in 1..Len(rs) : PassedOn(rs, i)})
       /\ chunkedMessage[o] = <<>>
       /\ \A k \in 1..Len(requests[o]) :
             requests[o][k]
                 = [method |-> "POST",
                    url |-> SendUrl(FirstId(SubSeq(rs, 1, k - 1)), k - 1),
                    headers |-> [nonce |-> k,
                                 chunkRange |-> FormatRange(k, Len(cs))],
                    data |-> compressData(cs[k])]
       /\ pc[o] = "returned"
          => ret[o] = [tag |-> "result", value |-> LastResult(rs)]
       /\ ~Ended(o) => ret[o] = NoReturn

\* A read's identifier, cursor, accumulator, requests and return value as
\* computed from its own argument and its own responses.
ReadFromOwnExchange(o, mid) ==
    LET rs == responses[o]
    IN /\ messageID[o] = mid
       /\ chunkedMessage[o] = ConcatBodies(Processed(rs))
       /\ currentChunk[o] = CursorAfter(Processed(rs))
       /\ result[o] = InitialResult
       /\ \A k \in 1..Len(requests[o]) :
             requests[o][k]
                 = [method |-> "GET",
                    url |-> ReadUrl(mid,
                                    IF k = 1 THEN 0
                                    ELSE RangeOf(rs[k - 1]).currentChunk.v + 1),
                    headers |-> [nonce |-> k, chunkRange |-> Absent],
                    data |-> <<>>]
       /\ pc[o] = "returned"
          => ret[o] = IF rs[1].status = 200
                      THEN [tag |-> "response", value |-> rs[1]]
                      ELSE [tag |-> "result",
                            value |-> [status |-> 206,
                                       data |-> ConcatBodies(Processed(rs))]]
       /\ ~Ended(o) => ret[o] = NoReturn

\* C20 as stated: two concurrent calls do not interfere, so a call that has
\* not ended is never stopped by the other one.
C20_Original_NeverStoppedByTheOther ==
    \A o \in Ops :
        ~Ended(o) => \A p \in Ops : pc[p] # "exited"

\* C20, amended: with two calls interleaved, each call's message identifier,
\* chunk cursor, accumulator, result, requests and return value are what the
\* call computes from its own input and its own responses; the one effect of
\* a call on the other is the process exit, after which the other call is
\* left where it was, without a return value.
C20_EachCallFollowsItsOwnExchange ==
    \A o \in Ops :
        /\ IsSend(o) => SendFromOwnExchange(o)
        /\ IsRead(o) => ReadFromOwnExchange(o, IF o = 1 THEN "m1" ELSE "m2")

\* Both calls have had an answer and both have a request in flight, and the
\* send among them holds the identifier the server gave it.
C20_Witness ==
    /\ IsSend(1) /\ IsRead(2)
    /\ inflight[1] = 1 /\ inflight[2] = 1
    /\ Len(responses[1]) = 1 /\ Len(responses[2]) = 1
    /\ messageID[1] = "m1" /\ messageID[2] = "m2"
    /\ chunkedMessage[2] = <<"a">>

\* One call has left the process while the other was waiting for an answer.
C20_WitnessExit ==
    \E o, p \in Ops :
        /\ pc[o] = "exited"
        /\ pc[p] = "awaitPost"
        /\ ret[p] = NoReturn

====
